---------------------------- MODULE Spec2Model ----------------------------
(***************************************************************************)
(* A model of mosaic_traj/read_traj.py: process_metadata (the header       *)
(* scan), read_traj (the block-by-block body read through a pandas         *)
(* chunked reader) and read_data (the date-range loader).                  *)
(*                                                                         *)
(* A file is a sequence of physical lines.  A line is abstracted to what   *)
(* the code reads from it: the first label substring it contains (kind),   *)
(* the integer tokens re.findall('\d+') finds in it (nums) and whether it  *)
(* ends in ': t' once lowercased (t).  A 10-digit YYYYMMDDHH token is the  *)
(* pair <<day, hour>>.  Timestamps are minutes since day 0.                *)
(***************************************************************************)
EXTENDS Integers, Sequences, FiniteSets, TLC

\* ------------------------------------------------------------------ bounds
MaxLines == 4      \* longest arbitrary header handed to process_metadata
MaxPart  == 2      \* largest declared trajectory count
MaxAttr  == 2      \* longest attribute code list
MaxFreq  == 2      \* largest sampling frequency token, in minutes
MaxDay   == 3      \* calendar days 1..MaxDay
MaxFiles == 2      \* most files in a directory listing

\* --------------------------------------------------------------- constants
nts == 88
SepRows == 2

\* ------------------------------------------------------------------- lines
Labels ==
  { "trajectory number", "trajectory base time", "data base time",
    "data interval", "total number of trajectories", "number of attributes",
    "attribute types", "number of clusters", "cluster pointers",
    "3d trajectory", "forecast data", "forward trajectory" }

Ln(kind, nums) == [kind |-> kind, nums |-> nums, t |-> FALSE]
Flag(kind, b)  == [kind |-> kind, nums |-> << >>, t |-> b]

Blank       == Ln("blank", << >>)
Columns     == Ln("columns", << >>)
Marker(b)   == Ln("trajectory number", <<b, nts>>)
Rec(b, s)   == Ln("record", <<b, s>>)

\* The code table ATTR.
ATTR ==
  [c \in {1, 3, 4, 10, 159} |->
     CASE c = 1   -> "temperature (K)"
       [] c = 3   -> "potential vorticity (PVU)"
       [] c = 4   -> "specific humidity (kg/kg)"
       [] c = 10  -> "height (m)"
       [] c = 159 -> "boundary layer height (m)"]

\* ----------------------------------------------------------- file layout
\* A file is [hdr, cut, blank, freq]: the header lines, then the first cut
\* lines of the canonical body, whose blocks are a marker line, the column
\* label line and nts + 1 records (with blank lines around the marker when
\* blank is set); freq is the frequency token of the file's name.
BlockLen(blank) == (IF blank THEN 4 ELSE 2) + nts + 1

BodyLine(blank, j) ==
  LET L == BlockLen(blank)
      b == ((j - 1) \div L) + 1
      o == (j - 1) % L
  IN IF blank
       THEN CASE o = 0 -> Marker(b)
              [] o = 1 -> Blank
              [] o = 2 -> Columns
              [] o = L - 1 -> Blank
              [] OTHER -> Rec(b, o - 3)
       ELSE CASE o = 0 -> Marker(b)
              [] o = 1 -> Columns
              [] OTHER -> Rec(b, o - 2)

FileLen(fl) == Len(fl.hdr) + fl.cut

LineAt(fl, n) ==
  IF n <= Len(fl.hdr) THEN fl.hdr[n] ELSE BodyLine(fl.blank, n - Len(fl.hdr))

\* ------------------------------------------------------- metadata values
Absent == [tag |-> "absent", v |-> << >>]
PyNone == [tag |-> "none", v |-> << >>]

MetaKeys ==
  (Labels \ {"trajectory number", "data interval"})
    \cup {"data interval hours", "data interval timesteps"}

\* get_date: the first 10-digit token, or None.
GetDate(line) ==
  IF Len(line.nums) = 2 THEN [tag |-> "date", v |-> line.nums] ELSE PyNone

\* get_numeric: a list when there are several tokens, a bare int when there
\* is one; IndexError (m[0] of an empty list) when there is none.
GetNumericRaises(line) == line.nums = << >>

GetNumeric(line) ==
  IF Len(line.nums) > 1
    THEN [tag |-> "list", v |-> line.nums]
    ELSE [tag |-> "int", v |-> line.nums]

\* get_boolean
GetBoolean(line) == [tag |-> "bool", v |-> IF line.t THEN <<1>> ELSE <<0>>]

\* --------------------------------------------------------------- variables
VARIABLES
  call,        \* the entry point: "process_metadata", "read_traj", "read_data"
  file,        \* the file being read
  pc,          \* where the call is
  exc,         \* the exception that ended the call ("" for none)
  open,        \* the open file handles
  pos,         \* process_metadata: physical lines the iterator f has yielded
  i,           \* process_metadata: enumerate's index
  count,       \* process_metadata: count
  metadata,    \* the metadata dict
  traj_dt,     \* read_traj: the base time parsed, [day, hour]
  attr_names,  \* read_traj: metadata['attribute names']
  npart,       \* read_traj: npart
  rpos,        \* reader: physical lines consumed
  first_chunk, \* reader: no chunk has been read yet
  ti,          \* read_traj: the loop index i
  traj_list,   \* read_traj: traj_list
  df,          \* read_traj: the table returned
  args,        \* read_data: its arguments
  dir,         \* read_data: the directory listing of input_dir
  cwd,         \* the process's working directory
  files,       \* read_data: files
  fi,          \* read_data: files already read
  data         \* read_data: data

scanVars == <<pos, i, count, metadata>>
trajVars == <<traj_dt, attr_names, npart, rpos, first_chunk, ti, traj_list, df>>
dataVars == <<args, dir, cwd, files, fi, data>>
vars == <<call, file, pc, exc, open, scanVars, trajVars, dataVars>>

NoChunk == [none |-> TRUE, rows |-> << >>]
NoFile  == [hdr |-> << >>, cut |-> 0, blank |-> FALSE, freq |-> 1]
NoArgs  == [isdir |-> TRUE, iso |-> TRUE, mixed |-> FALSE,
            start |-> 1, end |-> 0]

\* ------------------------------------------------------- process_metadata
\* An exception raised in read_traj has no handler in read_traj, in
\* read_data's list comprehension or in read_data: the call ends with it.
OnErrorSkipFile(c) == IF c = "read_data" THEN "traj_done" ELSE "raised"

OnError(c) == "raised"

\* "with open(file) as f": the handle is released when the block is left,
\* by break, by exhaustion or by an exception.
WithExitLeak(handles, h) == handles

WithExit(handles, h) == handles \ {h}

\* The branch a header line takes: the updated dict, the lines the branch
\* consumed by next(f), and the exception it raises ("" for none).
Branch(md, line, hasNext, nextLine) ==
  LET ok(m)  == [md |-> m, ahead |-> 0, err |-> ""]
      bad(e) == [md |-> md, ahead |-> 0, err |-> e]
      num(key) ==
        IF GetNumericRaises(line) THEN bad("IndexError")
        ELSE ok([md EXCEPT ![key] = GetNumeric(line)])
      look(key) ==
        IF ~hasNext THEN bad("StopIteration")
        ELSE IF GetNumericRaises(nextLine)
          THEN [md |-> md, ahead |-> 1, err |-> "IndexError"]
          ELSE [md |-> [md EXCEPT ![key] = GetNumeric(nextLine)],
                ahead |-> 1, err |-> ""]
  IN CASE line.kind = "trajectory base time" ->
            ok([md EXCEPT !["trajectory base time"] = GetDate(line)])
       [] line.kind = "data base time" ->
            ok([md EXCEPT !["data base time"] = GetDate(line)])
       [] line.kind = "data interval" ->
            IF GetNumericRaises(line) THEN bad("IndexError")
            ELSE IF Len(line.nums) = 1 THEN bad("TypeError")
            ELSE IF Len(line.nums) = 2
              THEN ok([md EXCEPT
                         !["data interval hours"] =
                            [tag |-> "int", v |-> <<line.nums[1]>>],
                         !["data interval timesteps"] =
                            [tag |-> "int", v |-> <<line.nums[2]>>]])
              ELSE bad("ValueError")
       [] line.kind = "total number of trajectories" ->
            num("total number of trajectories")
       [] line.kind = "number of attributes" -> num("number of attributes")
       [] line.kind = "attribute types" -> look("attribute types")
       [] line.kind = "number of clusters" -> num("number of clusters")
       [] line.kind = "cluster pointers" -> look("cluster pointers")
       [] line.kind = "3d trajectory" ->
            ok([md EXCEPT !["3d trajectory"] = GetBoolean(line)])
       [] line.kind = "forecast data" ->
            ok([md EXCEPT !["forecast data"] = GetBoolean(line)])
       [] line.kind = "forward trajectory" ->
            ok([md EXCEPT !["forward trajectory"] = GetBoolean(line)])
       [] OTHER -> ok(md)

\* count = count + i at the marker line.
CountAtMarker(c, idx) == c + idx

\* The lines a lookahead branch adds to count.
CountLookaheadDropped(c, ahead) == c

CountLookahead(c, ahead) == c + ahead

\* process_metadata is entered: metadata = {}, count = 0, f is opened.
OpenHeader ==
  /\ pc = "call_meta"
  /\ pc' = "scan"
  /\ open' = open \cup {"f"}
  /\ pos' = 0
  /\ i' = 0
  /\ count' = 0
  /\ metadata' = [k \in MetaKeys |-> Absent]
  /\ UNCHANGED <<call, file, exc, trajVars, dataVars>>

\* One iteration of "for i, line in enumerate(f)", or the loop's end.
ScanLine ==
  /\ pc = "scan"
  /\ IF pos = FileLen(file)
       THEN \* f is exhausted: the loop ends without a break
            /\ pc' = "meta_done"
            /\ open' = WithExit(open, "f")
            /\ UNCHANGED <<exc, scanVars>>
       ELSE LET line == LineAt(file, pos + 1)
                hasNext == pos + 1 < FileLen(file)
                br == Branch(metadata, line, hasNext,
                             IF hasNext THEN LineAt(file, pos + 2) ELSE Blank)
            IN IF line.kind = "trajectory number"
                 THEN /\ count' = CountAtMarker(count, i)
                      /\ pos' = pos + 1
                      /\ i' = i + 1
                      /\ pc' = "meta_done"
                      /\ open' = WithExit(open, "f")
                      /\ UNCHANGED <<exc, metadata>>
                 ELSE /\ pos' = pos + 1 + br.ahead
                      /\ i' = i + 1
                      /\ metadata' = br.md
                      /\ IF br.err = ""
                           THEN /\ count' = CountLookahead(count, br.ahead)
                                /\ UNCHANGED <<pc, exc, open>>
                           ELSE /\ pc' = OnError(call)
                                /\ exc' = br.err
                                /\ open' = WithExit(open, "f")
                                /\ UNCHANGED count
  /\ UNCHANGED <<call, file, trajVars, dataVars>>

\* --------------------------------------------------------------- read_traj
\* dt.datetime.strptime(s, '%Y%m%d%H')
Strptime(v) == [day |-> v[1], hour |-> v[2]]

\* dt.datetime.strftime(traj_dt, '%Y-%m-%d'): the date, without the hour;
\* pandas reads it back as that day's midnight.
StrftimeDateAndHour(d) == d

StrftimeDate(d) == [day |-> d.day, hour |-> 0]

Minutes(d) == d.day * 1440 + d.hour * 60

\* pd.date_range(ts, periods=n, freq=f)
DateRange(ts, n, f) == [j \in 1..n |-> Minutes(ts) + (j - 1) * f]

\* [ATTR[x] for x in codes]
AttrNames(codes) == [j \in 1..Len(codes) |-> ATTR[codes[j]]]

\* The first exception lines 173-186 raise on this dict ("" for none).
PrepareError(md) ==
  LET base  == md["trajectory base time"]
      np    == md["total number of trajectories"]
      types == md["attribute types"]
  IN IF base.tag = "absent" THEN "KeyError"
     ELSE IF base.tag = "none" THEN "TypeError"
     ELSE IF np.tag = "absent" THEN "KeyError"
     ELSE IF types.tag = "absent" THEN "KeyError"
     ELSE IF types.tag = "int" THEN "TypeError"
     ELSE IF \E j \in 1..Len(types.v) : types.v[j] \notin DOMAIN ATTR
       THEN "KeyError"
     ELSE IF np.tag = "list" THEN "TypeError"
     ELSE ""

\* The reader's next n rows from physical position p: blank lines are
\* skipped (skip_blank_lines), fewer than n rows are returned at the end of
\* the file.  Rows are named by their physical line number.
RECURSIVE Take(_, _, _)
Take(fl, p, n) ==
  IF n = 0 \/ p >= FileLen(fl) THEN [rows |-> << >>, pos |-> p]
  ELSE IF n = 1
    THEN IF LineAt(fl, p + 1).kind = "blank" THEN Take(fl, p + 1, 1)
         ELSE [rows |-> <<p + 1>>, pos |-> p + 1]
  ELSE LET a == Take(fl, p, n \div 2)
           b == Take(fl, a.pos, n - (n \div 2))
       IN [rows |-> a.rows \o b.rows, pos |-> b.pos]

\* skip_rows = end + 1
SkipRowsNoMarker(end) == end

SkipRows(end) == end + 1

\* pd.read_csv(skiprows=skip, header=0, names=col_names, iterator=True): the
\* position after the skipped lines and the header row.  With names given
\* an input that ends before the header row yields an empty reader.
ReaderStart(fl, skip) ==
  Take(fl, IF skip < FileLen(fl) THEN skip ELSE FileLen(fl), 1).pos

\* reader.get_chunk(n): the rows, the new position, and whether it raises
\* StopIteration: no row is left and this is not the first chunk (the first
\* read of an exhausted input returns an empty frame).
GetChunk(fl, p, n, first) ==
  LET tk == Take(fl, p, n)
  IN [rows |-> tk.rows, pos |-> tk.pos, stop |-> tk.rows = << >> /\ ~first]

\* pd.concat(objs, keys=keys): None objects are dropped with their keys and
\* an empty frame adds no row, so no entry; ValueError when every object is
\* None or there is none.
RECURSIVE ConcatFrom(_, _, _)
ConcatFrom(objs, keys, j) ==
  IF j > Len(objs) THEN << >>
  ELSE IF objs[j].none \/ objs[j].rows = << >>
    THEN ConcatFrom(objs, keys, j + 1)
  ELSE <<[key |-> keys[j], rows |-> objs[j].rows]>>
         \o ConcatFrom(objs, keys, j + 1)

ConcatRaises(objs) == \A j \in 1..Len(objs) : objs[j].none

Concat(objs, keys) == ConcatFrom(objs, keys, 1)

\* "with pd.read_csv(...) as reader": the reader is closed when the block
\* is left.
ReaderExit(handles) == handles \ {"reader"}

\* Lines 166-194: the header's count is taken, the dict is completed and
\* the reader is opened.
Prepare ==
  /\ pc = "meta_done"
  /\ call # "process_metadata"
  /\ LET err == PrepareError(metadata)
     IN IF err # ""
          THEN /\ pc' = OnError(call)
               /\ exc' = err
               /\ traj_dt' =
                    IF metadata["trajectory base time"].tag = "date"
                      THEN Strptime(metadata["trajectory base time"].v)
                      ELSE traj_dt
               /\ UNCHANGED <<open, attr_names, npart, rpos, first_chunk,
                              ti, traj_list>>
          ELSE /\ pc' = "loop"
               /\ exc' = ""
               /\ traj_dt' = Strptime(metadata["trajectory base time"].v)
               /\ npart' = metadata["total number of trajectories"].v[1]
               /\ attr_names' = AttrNames(metadata["attribute types"].v)
               /\ traj_list' =
                    [j \in 1..metadata["total number of trajectories"].v[1]
                       |-> NoChunk]
               /\ open' = open \cup {"reader"}
               /\ rpos' = ReaderStart(file, SkipRows(count))
               /\ first_chunk' = TRUE
               /\ ti' = 0
  /\ UNCHANGED <<call, file, scanVars, df, dataVars>>

\* One iteration of "while i < npart", or the loop's end; either way out of
\* the loop leaves the with block.
ReadBlock ==
  /\ pc = "loop"
  /\ IF ti >= npart
       THEN /\ pc' = "concat"
            /\ open' = ReaderExit(open)
            /\ UNCHANGED <<rpos, first_chunk, ti, traj_list>>
       ELSE LET c1 == GetChunk(file, rpos, nts + 1, first_chunk)
                c2 == GetChunk(file, c1.pos, SepRows, FALSE)
            IN IF c1.stop
                 THEN /\ pc' = "concat"
                      /\ open' = ReaderExit(open)
                      /\ UNCHANGED <<rpos, first_chunk, ti, traj_list>>
                 ELSE /\ traj_list' =
                           [traj_list EXCEPT
                              ![ti + 1] = [none |-> FALSE, rows |-> c1.rows]]
                      /\ first_chunk' = FALSE
                      /\ IF c2.stop
                           THEN /\ pc' = "concat"
                                /\ open' = ReaderExit(open)
                                /\ rpos' = c1.pos
                                /\ UNCHANGED ti
                           ELSE /\ rpos' = c2.pos
                                /\ ti' = ti + 1
                                /\ UNCHANGED <<pc, open>>
  /\ UNCHANGED <<call, file, exc, scanVars, traj_dt, attr_names, npart, df,
                 dataVars>>

\* Lines 205-209: the blocks are combined under their release timestamps.
Combine ==
  /\ pc = "concat"
  /\ IF ConcatRaises(traj_list)
       THEN /\ pc' = OnError(call)
            /\ exc' = "ValueError"
            /\ UNCHANGED df
       ELSE /\ pc' = "traj_done"
            /\ df' = Concat(traj_list,
                            DateRange(StrftimeDate(traj_dt), npart, file.freq))
            /\ UNCHANGED exc
  /\ UNCHANGED <<call, file, open, scanVars, traj_dt, attr_names, npart,
                 rpos, first_chunk, ti, traj_list, dataVars>>

\* --------------------------------------------------------------- read_data
\* args is [isdir, iso, mixed, start, end]: input_dir is a directory, both
\* date strings are ISO strings, exactly one of them carries a UTC offset;
\* start and end are the calendar days, end = 0 when end_date is None.
\* dir is the listing of input_dir: [day, file] for a file whose name
\* matches rtraj*<YYYYMMDD of day>00.

\* daterange(start_date, end_date): the days, ascending.
DateRangeDaysExclusive(start, end) ==
  LET e == IF end = 0 THEN start ELSE end
  IN [n \in 1..(IF e - start > 0 THEN e - start ELSE 0) |-> start + n - 1]

DateRangeDays(start, end) ==
  LET e == IF end = 0 THEN start ELSE end
  IN [n \in 1..(IF e - start + 1 > 0 THEN e - start + 1 ELSE 0)
        |-> start + n - 1]

\* (end_date - start_date) raises TypeError when one datetime is
\* offset-aware and the other is not.
DateRangeRaises(a) == a.end # 0 /\ a.mixed

\* glob.glob(date.strftime("rtraj*%Y%m%d00")): the matching entries of the
\* listing, as indices, in listing order.
RECURSIVE Glob(_, _, _)
Glob(listing, day, j) ==
  IF j > Len(listing) THEN << >>
  ELSE (IF listing[j].day = day THEN <<j>> ELSE << >>)
         \o Glob(listing, day, j + 1)

\* files = [glob(...) for date in daterange(...)], flattened.
RECURSIVE GlobAll(_, _, _)
GlobAll(listing, days, n) ==
  IF n > Len(days) THEN << >>
  ELSE Glob(listing, days[n], 1) \o GlobAll(listing, days, n + 1)

\* os.chdir(start_dir)
RestoreDir(d) == "start_dir"

\* Lines 214-223: the arguments are checked and parsed, then the working
\* directory is changed.
EnterDir ==
  /\ pc = "call_data"
  /\ IF ~args.isdir \/ ~args.iso
       THEN /\ pc' = "raised"
            /\ exc' = "ValueError"
            /\ UNCHANGED cwd
       ELSE /\ pc' = "glob"
            /\ cwd' = "input_dir"
            /\ UNCHANGED exc
  /\ UNCHANGED <<call, file, open, scanVars, trajVars, args, dir, files, fi,
                 data>>

\* Lines 225-227: every day of the range is globbed.
Enumerate ==
  /\ pc = "glob"
  /\ IF DateRangeRaises(args)
       THEN /\ pc' = "raised"
            /\ exc' = "TypeError"
            /\ UNCHANGED files
       ELSE /\ pc' = "globbed"
            /\ files' = GlobAll(dir, DateRangeDays(args.start, args.end), 1)
            /\ UNCHANGED exc
  /\ UNCHANGED <<call, file, open, scanVars, trajVars, args, dir, cwd, fi,
                 data>>

\* Line 229
LeaveDir ==
  /\ pc = "globbed"
  /\ pc' = "files"
  /\ cwd' = RestoreDir(cwd)
  /\ fi' = 0
  /\ data' = << >>
  /\ UNCHANGED <<call, file, exc, open, scanVars, trajVars, args, dir, files>>

\* Line 231: read_traj is called on the next file.
ReadNext ==
  /\ pc = "files"
  /\ fi < Len(files)
  /\ pc' = "call_meta"
  /\ file' = dir[files[fi + 1]].file
  /\ UNCHANGED <<call, exc, open, scanVars, trajVars, dataVars>>

\* Line 231: read_traj has returned and its pair joins data.
Collect ==
  /\ pc = "traj_done"
  /\ call = "read_data"
  /\ pc' = "files"
  /\ data' = Append(data, [src |-> files[fi + 1], df |-> df,
                           metadata |-> metadata])
  /\ fi' = fi + 1
  /\ UNCHANGED <<call, file, exc, open, scanVars, trajVars, args, dir, cwd,
                 files>>

\* Line 233
ReturnData ==
  /\ pc = "files"
  /\ fi = Len(files)
  /\ pc' = "returned"
  /\ UNCHANGED <<call, file, exc, open, scanVars, trajVars, dataVars>>

\* ------------------------------------------------------------------ inputs
Values(nums) == Ln("values", nums)

\* The lines an arbitrary header is made of.
HeaderLines ==
  { Marker(1), Ln("attribute types", << >>), Ln("cluster pointers", << >>),
    Values(<<1, 3>>), Blank, Ln("number of attributes", <<2>>) }

SeqsUpTo(S, n) == UNION {[1..m -> S] : m \in 0..n}

\* The header of the module's docstring, from the integer tokens of its
\* base time, trajectory count and attribute code lines; NoLine leaves the
\* line out, and a base time line without tokens has no 10-digit timestamp.
NoLine == <<-1>>

Opt(nums, line) == IF nums = NoLine THEN << >> ELSE <<line>>

Header(base, np, nattr, codes) ==
  Opt(base, Ln("trajectory base time", base))
    \o <<Ln("data base time", <<2, 0>>), Ln("data interval", <<3, 6>>)>>
    \o Opt(np, Ln("total number of trajectories", np))
    \o <<Ln("number of attributes", <<nattr>>)>>
    \o (IF codes = NoLine THEN << >>
        ELSE <<Ln("attribute types", << >>), Values(codes)>>)
    \o <<Ln("number of clusters", <<1>>), Ln("cluster pointers", << >>),
         Values(<<1>>), Flag("3d trajectory", TRUE),
         Flag("forecast data", FALSE), Flag("forward trajectory", FALSE),
         Blank>>

\* The shortest header read_traj accepts.
ShortHeader(base, np, codes) ==
  Opt(base, Ln("trajectory base time", base))
    \o <<Ln("total number of trajectories", np),
         Ln("attribute types", << >>), Values(codes)>>

CodeChoices == {1, 3, 999}

\* Files handed to read_traj: well-formed headers over truncations of a
\* body of MaxPart blocks followed by the separator lines of one more. The
\* body is cut at every line from one record before a block's end to two
\* records into the next block; a cut further into a block reads like the
\* cut after the block's second record.
MaxCut(blank) == MaxPart * BlockLen(blank) + (IF blank THEN 3 ELSE 2)

Cuts(blank) ==
  {c \in 0..MaxCut(blank) :
     \E k \in 0..MaxPart :
       /\ k * BlockLen(blank) - 1 <= c
       /\ c <= k * BlockLen(blank) + (IF blank THEN 3 ELSE 2) + 2}

BodyFiles ==
  { [hdr |-> ShortHeader(<<1, h>>, <<n>>, <<1, 3>>)
               \o (IF bc[1] THEN <<Blank>> ELSE << >>),
     cut |-> bc[2], blank |-> bc[1], freq |-> f] :
      h \in 0..1, n \in 0..MaxPart, f \in 1..MaxFreq,
      bc \in {x \in BOOLEAN \X (0..MaxCut(TRUE)) : x[2] \in Cuts(x[1])} }

\* Files handed to read_traj: every header variant over a one-block body.
HeaderFiles ==
  { [hdr |-> Header(base, np, na, codes), cut |-> BlockLen(FALSE),
     blank |-> FALSE, freq |-> 1] :
      base \in {NoLine, << >>, <<1, 0>>},
      np \in {NoLine, <<1>>, <<1, 2>>},
      na \in 1..MaxAttr,
      codes \in {NoLine} \cup (SeqsUpTo(CodeChoices, MaxAttr) \ {<< >>}) }

\* The files of a directory: a complete file, one without a base time and
\* one with an unknown attribute code. A directory holds complete files and
\* files of one malformed kind: the read stops at the first malformed file,
\* so the kind of a later one is never looked at.
GoodFile ==
  [hdr |-> ShortHeader(<<1, 0>>, <<1>>, <<1, 3>>), cut |-> BlockLen(FALSE),
   blank |-> FALSE, freq |-> 1]
NoBaseFile == [GoodFile EXCEPT !.hdr = ShortHeader(NoLine, <<1>>, <<1, 3>>)]
BadCodeFile == [GoodFile EXCEPT !.hdr = ShortHeader(<<1, 0>>, <<1>>, <<3, 999>>)]
Catalogue == {{GoodFile, NoBaseFile}, {GoodFile, BadCodeFile}}

Listings ==
  UNION {SeqsUpTo([day : 1..MaxDay, file : C], MaxFiles) : C \in Catalogue}

ArgsChoices ==
  { [isdir |-> k # "notdir", iso |-> k # "badiso", mixed |-> k = "mixed",
     start |-> s, end |-> e] :
      k \in {"ok", "notdir", "badiso", "mixed"}, s \in 1..MaxDay,
      e \in 0..MaxDay }

\* -------------------------------------------------------------------- spec
InitLocals ==
  /\ exc = ""
  /\ open = {}
  /\ pos = 0
  /\ i = 0
  /\ count = 0
  /\ metadata = [k \in MetaKeys |-> Absent]
  /\ traj_dt = [day |-> 0, hour |-> 0]
  /\ attr_names = << >>
  /\ npart = 0
  /\ rpos = 0
  /\ first_chunk = TRUE
  /\ ti = 0
  /\ traj_list = << >>
  /\ df = << >>
  /\ cwd = "start_dir"
  /\ files = << >>
  /\ fi = 0
  /\ data = << >>

InitMeta ==
  /\ call = "process_metadata"
  /\ pc = "call_meta"
  /\ file \in {[NoFile EXCEPT !.hdr = h] : h \in SeqsUpTo(HeaderLines, MaxLines)}
  /\ args = NoArgs
  /\ dir = << >>

InitTraj ==
  /\ call = "read_traj"
  /\ pc = "call_meta"
  /\ file \in BodyFiles \cup HeaderFiles
  /\ args = NoArgs
  /\ dir = << >>

InitData ==
  /\ call = "read_data"
  /\ pc = "call_data"
  /\ file = NoFile
  /\ args \in ArgsChoices
  \* the listing is not read by a call that raises before it globs
  /\ dir \in IF args.isdir /\ args.iso /\ ~DateRangeRaises(args)
               THEN Listings ELSE {<< >>}

Init == InitLocals /\ (InitMeta \/ InitTraj \/ InitData)

Next ==
  \/ OpenHeader
  \/ ScanLine
  \/ Prepare
  \/ ReadBlock
  \/ Combine
  \/ EnterDir
  \/ Enumerate
  \/ LeaveDir
  \/ ReadNext
  \/ Collect
  \/ ReturnData

Spec == Init /\ [][Next]_vars

\* ----------------------------------------------------- facts about a file
HasMarker(fl) ==
  \E n \in 1..FileLen(fl) : LineAt(fl, n).kind = "trajectory number"

FirstMarker(fl) ==
  CHOOSE n \in 1..FileLen(fl) :
    /\ LineAt(fl, n).kind = "trajectory number"
    /\ \A m \in 1..(n - 1) : LineAt(fl, m).kind # "trajectory number"

\* The lines that are the value line of an 'attribute types' or 'cluster
\* pointers' label: the line after a label line that is not itself such a
\* value line.
RECURSIVE IsValueLine(_, _)
IsValueLine(fl, n) ==
  /\ n > 1
  /\ LineAt(fl, n - 1).kind \in {"attribute types", "cluster pointers"}
  /\ ~IsValueLine(fl, n - 1)

\* The marker lines the scan can stop at: those that are not a value line.
OwnMarkers(fl) ==
  {n \in 1..FileLen(fl) :
     LineAt(fl, n).kind = "trajectory number" /\ ~IsValueLine(fl, n)}

Min(S) == CHOOSE n \in S : \A m \in S : n <= m

\* The records of the body that are present, and the complete blocks.
FirstRec(fl, b) ==
  Len(fl.hdr) + (b - 1) * BlockLen(fl.blank) + (IF fl.blank THEN 3 ELSE 2) + 1

BlockRows(fl, b) == [s \in 1..(nts + 1) |-> FirstRec(fl, b) + s - 1]

Blocks(fl) == (fl.cut + BlockLen(fl.blank) - 1) \div BlockLen(fl.blank)

CompleteBlocks(fl) ==
  Cardinality({b \in 1..Blocks(fl) : FirstRec(fl, b) + nts <= FileLen(fl)})

Records(fl) ==
  {n \in (Len(fl.hdr) + 1)..FileLen(fl) : LineAt(fl, n).kind = "record"}

\* What the header declares.
LinesOf(fl, kind) == {n \in 1..Len(fl.hdr) : fl.hdr[n].kind = kind}

Declared(fl, kind) == fl.hdr[Min(LinesOf(fl, kind))].nums

DeclaredCodes(fl) == fl.hdr[Min(LinesOf(fl, "attribute types")) + 1].nums

\* A header read_traj is written for: the base time, the trajectory count
\* and the attribute codes are there, before the first marker of the body.
StandardHeader(fl) ==
  /\ LinesOf(fl, "trajectory number") = {}
  /\ LinesOf(fl, "trajectory base time") # {}
  /\ Len(Declared(fl, "trajectory base time")) = 2
  /\ LinesOf(fl, "total number of trajectories") # {}
  /\ Len(Declared(fl, "total number of trajectories")) = 1
  /\ LinesOf(fl, "attribute types") # {}
  /\ DeclaredCodes(fl) # << >>

KnownCodes(fl) ==
  \A j \in 1..Len(DeclaredCodes(fl)) : DeclaredCodes(fl)[j] \in DOMAIN ATTR

DeclaredCount(fl) == Declared(fl, "total number of trajectories")[1]

\* ------------------------------------------------------------------ claims

\* C1 as stated: whenever process_metadata returns on a header that holds
\* a marker line, count is the number of physical lines before the first
\* marker line.
C1_AsStated ==
  (pc = "meta_done" /\ HasMarker(file)) => count = FirstMarker(file) - 1

\* C1, amended: whenever process_metadata returns on a header that holds a
\* marker line which is not the value line of a label, count is the number
\* of physical lines before the first such marker line, whatever lookahead
\* labels and unrecognised lines come before it.
C1_CountBeforeOwnMarker ==
  (pc = "meta_done" /\ OwnMarkers(file) # {})
    => count = Min(OwnMarkers(file)) - 1

\* C1's case: the scan has stopped at a marker that follows a label, its
\* value line and an unrecognised line.
C1_Witness ==
  /\ call = "process_metadata"
  /\ pc = "meta_done"
  /\ OwnMarkers(file) # {}
  /\ count = 3
  /\ i = 3
  /\ \E n \in 1..3 : LineAt(file, n).kind = "blank" /\ ~IsValueLine(file, n)

\* C2: a well-formed file, which declares N >= 1 trajectories and holds
\* the records of exactly N complete blocks, is read into N entries with
\* distinct keys, the k-th holding exactly the nts + 1 record lines of the
\* k-th block in file order; with two or more attribute codes the read
\* does not raise.
WellFormed(fl) ==
  /\ StandardHeader(fl) /\ KnownCodes(fl)
  /\ DeclaredCount(fl) >= 1
  /\ CompleteBlocks(fl) = DeclaredCount(fl)
  /\ Cardinality(Records(fl)) = DeclaredCount(fl) * (nts + 1)

C2_BlocksInPlace ==
  (call # "process_metadata" /\ WellFormed(file))
    => /\ Len(DeclaredCodes(file)) > 1 => pc # "raised"
       /\ pc = "traj_done" =>
            /\ Len(df) = DeclaredCount(file)
            /\ \A k \in 1..Len(df) : df[k].rows = BlockRows(file, k)
            /\ \A k, l \in 1..Len(df) : k # l => df[k].key # df[l].key

\* C2's case: two blocks, each followed by its two separator lines, read.
C2_Witness ==
  /\ call = "read_traj"
  /\ pc = "traj_done"
  /\ WellFormed(file)
  /\ DeclaredCount(file) = 2
  /\ file.cut = 2 * BlockLen(file.blank) + (IF file.blank THEN 3 ELSE 2)
  /\ Len(df) = 2

\* C3 as stated: when the body, begun by its first marker line, ends
\* before trajectory_count blocks are complete, read_traj returns without
\* raising and the table is exactly the complete blocks.
Truncated(fl) ==
  /\ StandardHeader(fl) /\ KnownCodes(fl) /\ Len(DeclaredCodes(fl)) > 1
  /\ fl.cut >= 1
  /\ CompleteBlocks(fl) < DeclaredCount(fl)

C3_AsStated ==
  (call = "read_traj" /\ Truncated(file))
    => /\ pc # "raised"
       /\ pc = "traj_done" =>
            /\ Len(df) = CompleteBlocks(file)
            /\ \A k \in 1..Len(df) : df[k].rows = BlockRows(file, k)

\* C4 as stated: a read of a file with fewer complete blocks than declared
\* ends with the truncation reported as a TruncatedFileError.
C4_AsStated ==
  (call = "read_traj" /\ Truncated(file) /\ pc = "traj_done")
    => exc = "TruncatedFileError"

\* C5 as stated: the block read k-th is keyed by the full base time,
\* hour included, plus (k - 1) sampling intervals.
BaseTime(fl) == Strptime(Declared(fl, "trajectory base time"))

C5_AsStated ==
  (pc = "traj_done" /\ StandardHeader(file) /\ file.cut >= 1)
    => \A k \in 1..Len(df) :
         df[k].key = Minutes(BaseTime(file)) + (k - 1) * file.freq

\* C5, amended: the block read k-th is keyed by midnight of the base
\* time's date (the hour is dropped) plus (k - 1) sampling intervals; the
\* keys are strictly increasing, and the k-th entry holds records of the
\* k-th block only, for complete and for truncated files.
C5_KeysFromBaseDate ==
  (pc = "traj_done" /\ StandardHeader(file) /\ file.cut >= 1)
    => /\ \A k \in 1..Len(df) :
            /\ df[k].key =
                 BaseTime(file).day * 1440 + (k - 1) * file.freq
            /\ df[k].rows = traj_list[k].rows
            /\ \A n \in 1..Len(df[k].rows) :
                 /\ LineAt(file, df[k].rows[n]).kind = "record"
                 /\ LineAt(file, df[k].rows[n]).nums[1] = k
       /\ \A k \in 1..(Len(df) - 1) : df[k].key < df[k + 1].key

\* C5's case: a truncated file whose base time has a non-zero hour has
\* been read into two entries.
C5_Witness ==
  /\ call = "read_traj"
  /\ pc = "traj_done"
  /\ Truncated(file)
  /\ BaseTime(file).hour = 1
  /\ file.freq = 2
  /\ Len(df) = 2
  /\ df[2].key = 1442

\* C6 as stated: a header whose attribute count is at least 1 and is the
\* number of its codes, all of them in the code table, gives
\* attribute_names as the codes' names in order.
C6_AsStated ==
  LET codes == DeclaredCodes(file)
  IN (/\ call = "read_traj"
      /\ StandardHeader(file) /\ KnownCodes(file)
      /\ LinesOf(file, "number of attributes") # {}
      /\ Declared(file, "number of attributes") = <<Len(codes)>>
      /\ pc \in {"loop", "concat", "traj_done", "raised"})
       => /\ pc # "raised"
          /\ attr_names = AttrNames(codes)

\* C7: when read_data returns, data holds one pair per file whose day lies
\* in [start, end] (start alone when end is None), ordered by day and,
\* within a day, by the listing; a day without a file adds nothing.
InRange(a, day) == a.start <= day /\ day <= (IF a.end = 0 THEN a.start ELSE a.end)

C7_OnePairPerFile ==
  (call = "read_data" /\ pc = "returned")
    => LET S == {j \in 1..Len(dir) : InRange(args, dir[j].day)}
       IN /\ Len(data) = Cardinality(S)
          /\ {data[j].src : j \in 1..Len(data)} = S
          /\ \A a, b \in 1..Len(data) :
               a < b => \/ dir[data[a].src].day < dir[data[b].src].day
                        \/ /\ dir[data[a].src].day = dir[data[b].src].day
                           /\ data[a].src < data[b].src
          /\ \A j \in 1..Len(data) :
               data[j].df = <<[key |-> 1440, rows |-> BlockRows(GoodFile, 1)]>>

\* C7's case: files on the first and the third day of a three-day range,
\* none on the second, both returned in day order although listed in the
\* other order.
C7_Witness ==
  /\ call = "read_data"
  /\ pc = "returned"
  /\ args.start = 1 /\ args.end = 3
  /\ Len(dir) = 2 /\ dir[1].day = 3 /\ dir[2].day = 1
  /\ Len(data) = 2 /\ data[1].src = 2 /\ data[2].src = 1

\* C8 as stated: whenever read_data has finished, by returning or by
\* raising, the working directory is the one it was called in.
C8_AsStated ==
  (call = "read_data" /\ pc \in {"returned", "raised"}) => cwd = "start_dir"

\* C9: read_data never gets past a discovered file that lacks its base
\* time or holds an unknown attribute code: the file's read raises, no
\* later file is read and nothing is returned; days without a file are
\* skipped.
Malformed(fl) ==
  \/ LinesOf(fl, "trajectory base time") = {}
  \/ LinesOf(fl, "attribute types") # {} /\ ~KnownCodes(fl)

C9_AbortsOnMalformed ==
  call = "read_data"
    => /\ \A j \in 1..fi : ~Malformed(dir[files[j]].file)
       /\ pc \in {"loop", "concat", "traj_done"} => ~Malformed(file)
       /\ pc = "returned" =>
            \A j \in 1..Len(files) : ~Malformed(dir[files[j]].file)
       /\ (pc = "raised" /\ fi < Len(files) /\ cwd = "start_dir")
            => Malformed(dir[files[fi + 1]].file)

\* C9's case: a valid file of the first day has been read, the second day
\* has no file, and the read of the third day's file, which holds an
\* unknown code, has raised.
C9_Witness ==
  /\ call = "read_data"
  /\ pc = "raised"
  /\ exc = "KeyError"
  /\ fi = 1
  /\ Len(data) = 1
  /\ dir[files[1]].day = 1
  /\ dir[files[2]].day = 3
  /\ dir[files[2]].file = BadCodeFile

\* C10: at most one file handle is open at any time, and none is open
\* unless a header scan or a body read is under way: none between the
\* scan and the reader, between two files, or once the call has returned
\* or raised.
C10_HandlesScoped ==
  /\ Cardinality(open) <= 1
  /\ pc # "scan" => "f" \notin open
  /\ pc # "loop" => "reader" \notin open

\* C10's case: a read_data call has read its first file and has been
\* ended by a parse error in its second; no handle is left open.
C10_Witness ==
  /\ call = "read_data"
  /\ pc = "raised"
  /\ fi = 1
  /\ open = {}

=============================================================================
